---- MODULE Spec2Model ----
(***************************************************************************)
(* Model of the spx-levels level pipeline:                                 *)
(*   - TechnicalLevels.identify_levels (collect, sort, group, strength,    *)
(*     classify, rank)              src/spx_levels/levels/technical_levels.py *)
(*   - LevelStrength                src/spx_levels/levels/strength.py      *)
(*   - PriceAction.identify_swing_points                                   *)
(*                                  src/spx_levels/analysis/price_action.py *)
(*   - PsychologicalLevels          src/spx_levels/levels/psychological.py *)
(*                                                                         *)
(* Prices are exact rationals.  A level price is an integer; a group's     *)
(* representative price (a mean) is a reduced fraction <<num, den>>.       *)
(* A Level is the tuple <<price, label>> of the source.                    *)
(***************************************************************************)
EXTENDS Integers, Sequences, FiniteSets, TLC

VARIABLES
    generated,          \* identify_levels: volume + psych + support + resistance + ma + fib levels, before the sort
    current_price,      \* TechnicalLevels.current_price (data['Close'].iloc[-1])
    all_levels,         \* TechnicalLevels.all_levels
    grouped_levels,     \* TechnicalLevels.grouped_levels : Seq(<<mean, sources>>)
    level_strength,     \* TechnicalLevels.level_strength : mean -> strength
    support_levels,     \* TechnicalLevels.support_levels
    resistance_levels,  \* TechnicalLevels.resistance_levels
    pc,                 \* position of the operation under analysis: "init" | "done"
    High,               \* PriceAction.data['High']
    Low,                \* PriceAction.data['Low']
    order,              \* argument of identify_swing_points
    max_idx,            \* identify_swing_points: positions flagged as maxima of High_Smooth
    min_idx,            \* identify_swing_points: positions flagged as minima of Low_Smooth
    swing_highs,        \* returned frame: Seq([High, Date])
    swing_lows,         \* returned frame: Seq([Low, Date])
    last_close,         \* PsychologicalLevels.data['Close'].iloc[-1]
    nearby_pct,         \* argument of find_psychological_levels
    psych_levels,       \* result of find_psychological_levels
    vol_data,           \* VolumeAnalysis.data : Seq([High, Low, Volume])
    vol_call,           \* the VolumeAnalysis method called, with its argument
    vol_result,         \* what the call returned, or the exception it raised
    num_levels,         \* argument of calculate_fibonacci_levels
    fib_levels,         \* result of calculate_fibonacci_levels: Seq([key, levels])
    fib_appended,       \* identify_levels: the levels appended from fib_levels
    window,             \* argument of identify_support_resistance
    sr_support,         \* identify_support_resistance: support
    sr_resistance,      \* identify_support_resistance: resistance
    ma_data,            \* MovingAverages.data: [Close, MA: column name -> value on the last bar]
    ma_columns,         \* MovingAverages.ma_columns
    ma_df,              \* the frame calculate_mas returned last
    ma_levels,          \* what get_ma_levels returned last
    vix_data,           \* VolatilityAnalysis.vix_data: [given, Close]
    vix_text,           \* what analyze_vix returned last
    bars,               \* analyze_market: data, the bars fetched for the ticker
    results,            \* the values identify_levels returned (or what it raised), in call order
    environ,            \* os.environ after load_dotenv(): variable name -> value or Unset
    instance,           \* SchwabClientSingleton._instance, with the object's attributes
    allocated,          \* number of objects super().__new__ has made
    constructed,        \* the constructor calls so far: Seq([args, returned])
    easy_calls,         \* the calls of easy_client so far: Seq([credentials, outcome])
    accessed            \* what each read of .client returned (or that it raised)

aggVars   == <<generated, current_price, all_levels, grouped_levels, level_strength,
               support_levels, resistance_levels>>
swingVars == <<High, Low, order, max_idx, min_idx, swing_highs, swing_lows>>
psychVars == <<last_close, nearby_pct, psych_levels>>
volVars   == <<vol_data, vol_call, vol_result>>
fibVars   == <<num_levels, fib_levels, fib_appended>>
pivotVars == <<window, sr_support, sr_resistance>>
maVars    == <<ma_data, ma_columns, ma_df, ma_levels>>
vixVars   == <<vix_data, vix_text>>
pipeVars  == <<bars, results>>
clientVars == <<environ, instance, allocated, constructed, easy_calls, accessed>>
lateVars  == <<maVars, vixVars, pipeVars, clientVars>>
vars      == <<aggVars, swingVars, psychVars, volVars, fibVars, pivotVars, lateVars, pc>>

(***************************************************************************)
(* Bounds of the model.                                                    *)
(***************************************************************************)
MaxLevels == 3      \* longest combined level list
MaxBars   == 8      \* longest price series
MaxOrder  == 2      \* largest extrema order k
BasePrice == 100    \* High of the first bar of a series
MaxClose  == 1300   \* largest latest close handed to the psychological generator
MaxPct    == 2      \* largest nearby_pct (default 2.0)
MaxVolBars == 2     \* longest series handed to the volume analysis

\* prices the generators may emit, and the latest closes, of the aggregation runs
PriceGrid   == {5000, 5005, 5010, 5014, 5030}
CloseGrid   == {5014, 5040}
VolumeLabel == "Volume cluster"
PivotLabel  == "Recent price action"
FibLabel    == "Fibonacci 50% (Fib_Up_1)"
Labels      == {VolumeLabel, PivotLabel, FibLabel}
\* every label of the form "Fibonacci <ratio> (<key>)" the Fibonacci generator yields
FibonacciLabels ==
    {"Fibonacci " \o ratio \o " (" \o dir \o ToString(i) \o ")" :
        ratio \in {"0", "23%", "38%", "50%", "61%", "78%", "100"},
        dir \in {"Fib_Down_", "Fib_Up_"}, i \in 1..3}

(***************************************************************************)
(* Arithmetic helpers.                                                     *)
(***************************************************************************)
Abs(x) == IF x < 0 THEN -x ELSE x

RECURSIVE GCD(_, _)
GCD(a, b) == IF b = 0 THEN a ELSE GCD(b, a % b)

\* the quotient n / d (d > 0) as a reduced fraction
Rat(n, d) == LET g == GCD(Abs(n), d) IN <<n \div g, d \div g>>

RatLess(a, b) == a[1] * b[2] < b[1] * a[2]

RECURSIVE SumPrices(_)
SumPrices(levels) ==
    IF levels = <<>> THEN 0 ELSE levels[1][1] + SumPrices(Tail(levels))

(***************************************************************************)
(* TechnicalLevels._group_levels                                           *)
(***************************************************************************)
ThresholdNum == 2
ThresholdDen == 1000

\* abs(current_level - prev_level) / prev_level < threshold, prev_level > 0
WithinThreshold(current_level, prev_level) ==
    Abs(current_level - prev_level) * ThresholdDen < ThresholdNum * prev_level

\* variant: compare with the first member of the open group
PrevLevel_First(current_group) == current_group[1][1]

\* the level the next one is compared with: current_group[-1][0]
PrevLevel(current_group) == current_group[Len(current_group)][1]

\* variant: the midpoint of the first and the last member
AvgLevel_Midpoint(current_group) ==
    Rat(current_group[1][1] + current_group[Len(current_group)][1], 2)

\* avg_level = sum(level[0] for level in current_group) / len(current_group)
AvgLevel(current_group) == Rat(SumPrices(current_group), Len(current_group))

\* variant: a closed group keeps the label of its first member only
CloseGroup_FirstOnly(current_group) ==
    <<AvgLevel(current_group), <<current_group[1][2]>> >>

\* (avg_level, sources) of a closed group
CloseGroup(current_group) ==
    <<AvgLevel(current_group), [j \in 1..Len(current_group) |-> current_group[j][2]]>>

\* the loop over i = 1 .. len(all_levels)-1 (i is the 1-based position here)
RECURSIVE GroupLoop(_, _, _, _)
GroupLoop(levels, i, current_group, grouped) ==
    IF i > Len(levels)
    THEN Append(grouped, CloseGroup(current_group))
    ELSE IF WithinThreshold(levels[i][1], PrevLevel(current_group))
         THEN GroupLoop(levels, i + 1, Append(current_group, levels[i]), grouped)
         ELSE GroupLoop(levels, i + 1, <<levels[i]>>,
                        Append(grouped, CloseGroup(current_group)))

\* variant: without the early return, an empty list closes one empty group at 0
GroupLevels_Unguarded(levels) ==
    IF levels = <<>> THEN << <<(<<0, 1>>), <<>> >> >>
    ELSE GroupLoop(levels, 2, <<levels[1]>>, <<>>)

\* if not self.all_levels: return []
GroupLevels(levels) ==
    IF levels = <<>> THEN <<>> ELSE GroupLoop(levels, 2, <<levels[1]>>, <<>>)

(***************************************************************************)
(* LevelStrength.calculate_strength / sort_by_strength                     *)
(***************************************************************************)
\* "Volume" in source or "price action" in source, on the labels the generators emit
HasVolumeOrPriceAction(source) == source \in {VolumeLabel, PivotLabel}
\* "Fibonacci" in source
HasFibonacci(source) == source \in FibonacciLabels

FibBonus(fib_count) == IF fib_count > 1 THEN fib_count - 1 ELSE 0

\* variant: the extra weight is given once per group
WeightBonus_Once(sources) ==
    IF \E j \in 1..Len(sources) : HasVolumeOrPriceAction(sources[j]) THEN 1 ELSE 0

\* for source in sources: if "Volume" in source or "price action" in source: strength += 1
WeightBonus(sources) == Len(SelectSeq(sources, HasVolumeOrPriceAction))

\* fib_count = sum(1 for src in sources if "Fibonacci" in src)
FibCount(sources) == Len(SelectSeq(sources, HasFibonacci))

\* variant: a Volume / price action member lowers the strength instead of raising it
GroupStrength_Discounted(sources) ==
    Len(sources) - 2 * WeightBonus(sources) + FibBonus(FibCount(sources))

\* strength = len(sources), plus the extra weights, plus the Fibonacci bonus
GroupStrength(sources) ==
    Len(sources) + WeightBonus(sources) + FibBonus(FibCount(sources))

\* level_strength[level] = strength, group after group
RECURSIVE CalculateStrength(_, _)
CalculateStrength(grouped, acc) ==
    IF grouped = <<>> THEN acc
    ELSE LET level == grouped[1][1]
             s     == GroupStrength(grouped[1][2])
         IN CalculateStrength(Tail(grouped),
                [k \in (DOMAIN acc) \cup {level} |-> IF k = level THEN s ELSE acc[k]])

EmptyDict == [k \in {} |-> 0]

\* variant: an unstable sort, x goes in front of the elements of equal strength
RECURSIVE InsertByStrength_Unstable(_, _, _)
InsertByStrength_Unstable(x, sorted, strength) ==
    IF sorted = <<>> THEN <<x>>
    ELSE IF strength[sorted[1][1]] > strength[x[1]]
         THEN <<sorted[1]>> \o InsertByStrength_Unstable(x, Tail(sorted), strength)
         ELSE <<x>> \o sorted

\* insert x behind every element whose strength is >= its own
RECURSIVE InsertByStrength(_, _, _)
InsertByStrength(x, sorted, strength) ==
    IF sorted = <<>> THEN <<x>>
    ELSE IF strength[sorted[1][1]] >= strength[x[1]]
         THEN <<sorted[1]>> \o InsertByStrength(x, Tail(sorted), strength)
         ELSE <<x>> \o sorted

\* sorted(levels, key=lambda x: level_strength[x[0]], reverse=True): stable
RECURSIVE SortLoop(_, _, _)
SortLoop(levels, sorted, strength) ==
    IF levels = <<>> THEN sorted
    ELSE SortLoop(Tail(levels), InsertByStrength(levels[1], sorted, strength), strength)

SortByStrength(levels, strength) == SortLoop(levels, <<>>, strength)

(***************************************************************************)
(* TechnicalLevels._classify_levels                                        *)
(***************************************************************************)
\* variant: level <= current_price
IsSupport_Inclusive(level, price) == ~RatLess(<<price, 1>>, level)

IsSupport(level, price) == RatLess(level, <<price, 1>>)
IsResistance(level, price) == ~RatLess(level, <<price, 1>>)

ClassifySupport(grouped, price) ==
    SelectSeq(grouped, LAMBDA g : IsSupport(g[1], price))
ClassifyResistance(grouped, price) ==
    SelectSeq(grouped, LAMBDA g : IsResistance(g[1], price))

(***************************************************************************)
(* TechnicalLevels.identify_levels                                         *)
(***************************************************************************)
\* insert x behind every element whose price is <= its own
RECURSIVE InsertByPrice(_, _)
InsertByPrice(x, sorted) ==
    IF sorted = <<>> THEN <<x>>
    ELSE IF sorted[1][1] <= x[1]
         THEN <<sorted[1]>> \o InsertByPrice(x, Tail(sorted))
         ELSE <<x>> \o sorted

\* all_levels.sort(key=lambda x: x[0]): stable
RECURSIVE SortByPrice(_, _)
SortByPrice(levels, sorted) ==
    IF levels = <<>> THEN sorted
    ELSE SortByPrice(Tail(levels), InsertByPrice(levels[1], sorted))

SeqsUpTo(S, n) == UNION {[1..m -> S] : m \in 0..n}

InitAgg ==
    /\ generated \in SeqsUpTo(PriceGrid \X Labels, MaxLevels)
    /\ current_price \in CloseGrid
    /\ all_levels = <<>>
    /\ grouped_levels = <<>>
    /\ level_strength = EmptyDict
    /\ support_levels = <<>>
    /\ resistance_levels = <<>>

IdleAgg ==
    /\ generated = <<>>
    /\ current_price = 0
    /\ all_levels = <<>>
    /\ grouped_levels = <<>>
    /\ level_strength = EmptyDict
    /\ support_levels = <<>>
    /\ resistance_levels = <<>>

IdentifyLevels ==
    /\ pc = "init"
    /\ LET sorted   == SortByPrice(generated, <<>>)
           grouped  == GroupLevels(sorted)
           strength == CalculateStrength(grouped, EmptyDict)
       IN /\ all_levels' = sorted
          /\ grouped_levels' = grouped
          /\ level_strength' = strength
          /\ support_levels' =
                SortByStrength(ClassifySupport(grouped, current_price), strength)
          /\ resistance_levels' =
                SortByStrength(ClassifyResistance(grouped, current_price), strength)
    /\ pc' = "done"
    /\ UNCHANGED <<generated, current_price, swingVars, psychVars, volVars, fibVars, pivotVars, lateVars>>

(***************************************************************************)
(* PriceAction.identify_swing_points                                       *)
(***************************************************************************)
Window == 3
NaN == <<"NaN">>

RECURSIVE SumRange(_, _, _)
SumRange(x, lo, hi) == IF lo > hi THEN 0 ELSE x[lo] + SumRange(x, lo + 1, hi)

\* x.rolling(window=3).mean(): undefined until the window is full
RollingMean(x) ==
    [i \in 1..Len(x) |->
        IF i < Window THEN NaN ELSE Rat(SumRange(x, i - Window + 1, i), Window)]

\* df with the two smoothed columns; Date is the row's index in the data
SmoothedFrame(high, low) ==
    LET hs == RollingMean(high)
        ls == RollingMean(low)
    IN [i \in 1..Len(high) |->
          [High |-> high[i], Low |-> low[i], High_Smooth |-> hs[i],
           Low_Smooth |-> ls[i], Date |-> i - 1]]

\* df.dropna(subset=['High_Smooth', 'Low_Smooth'])
DropNa(df) == SelectSeq(df, LAMBDA r : r.High_Smooth # NaN /\ r.Low_Smooth # NaN)

\* variant: np.greater_equal
Greater_OrEqual(a, b) == ~RatLess(a, b)

Greater(a, b) == RatLess(b, a)          \* np.greater
Less(a, b) == RatLess(a, b)             \* np.less

\* variant: mode='wrap'
Clip_Wrap(j, n) == j % n

\* ndarray.take(..., mode='clip'): an index off either end reads the end element
Clip(j, n) == IF j < 0 THEN 0 ELSE IF j > n - 1 THEN n - 1 ELSE j

\* scipy.signal.argrelextrema(values, comparator, order=order), default mode='clip';
\* values is 1-based here, the positions returned are 0-based as in numpy
ArgRelExtrema(values, comparator, k) ==
    LET n == Len(values)
        Cmp(a, b) == IF comparator = "greater" THEN Greater(a, b) ELSE Less(a, b)
        Flag(i) == \A shift \in 1..k :
                      /\ Cmp(values[i + 1], values[Clip(i + shift, n) + 1])
                      /\ Cmp(values[i + 1], values[Clip(i - shift, n) + 1])
    IN SelectSeq([j \in 1..n |-> j - 1], Flag)

\* variant: len(df) < (2 * order + 1)
NotEnoughData_Strict(df, k) == Len(df) < 2 * k + 1

\* len(df) <= (2 * order + 1): not enough data points
NotEnoughData(df, k) == Len(df) <= 2 * k + 1

SwingMaxIdx(df, k) ==
    IF NotEnoughData(df, k) THEN <<>>
    ELSE ArgRelExtrema([j \in 1..Len(df) |-> df[j].High_Smooth], "greater", k)

SwingMinIdx(df, k) ==
    IF NotEnoughData(df, k) THEN <<>>
    ELSE ArgRelExtrema([j \in 1..Len(df) |-> df[j].Low_Smooth], "less", k)

Deltas == {-1, 0, 1}

\* a series that starts at BasePrice and moves by one tick at most per bar
Walk(n, d) == [i \in 1..n |-> BasePrice + SumRange(d, 1, i - 1)]

RECURSIVE MinOf(_)
MinOf(x) == IF Len(x) = 1 THEN x[1]
            ELSE LET m == MinOf(Tail(x)) IN IF x[1] < m THEN x[1] ELSE m

\* Low runs one tick under High, or mirrors High under its minimum
LowOf(high, shape) ==
    IF high = <<>> THEN <<>>
    ELSE IF shape = "parallel" THEN [i \in 1..Len(high) |-> high[i] - 1]
    ELSE [i \in 1..Len(high) |-> 2 * MinOf(high) - high[i] - 1]

InitSwing ==
    /\ \E n \in 0..MaxBars :
         \E d \in [1..(IF n = 0 THEN 0 ELSE n - 1) -> Deltas] :
           \E shape \in {"parallel", "mirror"} :
              /\ High = Walk(n, d)
              /\ Low = LowOf(Walk(n, d), shape)
    /\ order = 0
    /\ max_idx = <<>>
    /\ min_idx = <<>>
    /\ swing_highs = <<>>
    /\ swing_lows = <<>>

IdleSwing ==
    /\ High = <<>>
    /\ Low = <<>>
    /\ order = 0
    /\ max_idx = <<>>
    /\ min_idx = <<>>
    /\ swing_highs = <<>>
    /\ swing_lows = <<>>

IdentifySwingPoints ==
    /\ pc = "init"
    /\ \E k \in 1..MaxOrder :
         LET df == DropNa(SmoothedFrame(High, Low))
             mx == SwingMaxIdx(df, k)
             mn == SwingMinIdx(df, k)
         IN /\ order' = k
            /\ max_idx' = mx
            /\ min_idx' = mn
            /\ swing_highs' = [j \in 1..Len(mx) |->
                                 [High |-> df[mx[j] + 1].High, Date |-> df[mx[j] + 1].Date]]
            /\ swing_lows' = [j \in 1..Len(mn) |->
                                 [Low |-> df[mn[j] + 1].Low, Date |-> df[mn[j] + 1].Date]]
    /\ pc' = "done"
    /\ UNCHANGED <<High, Low, aggVars, psychVars, volVars, fibVars, pivotVars, lateVars>>

(***************************************************************************)
(* PsychologicalLevels.find_psychological_levels                           *)
(***************************************************************************)
\* min_price = current_price - current_price * nearby_pct / 100
MinPrice(price, pct) == Rat(price * 100 - price * pct, 100)
\* max_price = current_price + current_price * nearby_pct / 100
MaxPrice(price, pct) == Rat(price * 100 + price * pct, 100)

\* np.floor(q / step) * step
FloorMultiple(q, step) == (q[1] \div (q[2] * step)) * step
\* np.ceil(q / step) * step
CeilMultiple(q, step) == ((q[1] + q[2] * step - 1) \div (q[2] * step)) * step

\* np.arange(start, stop, step): start, start + step, ... below stop
ARange(start, stop, step) ==
    [i \in 1..(IF stop > start THEN (stop - start + step - 1) \div step ELSE 0)
        |-> start + (i - 1) * step]

\* np.arange(np.floor(min_price / step) * step, np.ceil(max_price / step) * step, step)
RoundNumbers(price, pct, step) ==
    ARange(FloorMultiple(MinPrice(price, pct), step),
           CeilMultiple(MaxPrice(price, pct), step), step)

\* variant: the membership test is left out
InArray_Never(x, arr) == FALSE

\* level in hundreds / level in fifties
InArray(x, arr) == \E i \in 1..Len(arr) : arr[i] = x

FindPsychologicalLevels(price, pct) ==
    LET hundreds    == RoundNumbers(price, pct, 100)
        fifties     == RoundNumbers(price, pct, 50)
        twentyfives == RoundNumbers(price, pct, 25)
    IN [i \in 1..Len(hundreds) |-> <<hundreds[i], "Round number (100s)">>]
       \o [i \in 1..Len(SelectSeq(fifties, LAMBDA l : ~InArray(l, hundreds))) |->
             <<SelectSeq(fifties, LAMBDA l : ~InArray(l, hundreds))[i], "Round number (50s)">>]
       \o [i \in 1..Len(SelectSeq(twentyfives,
                          LAMBDA l : ~InArray(l, hundreds) /\ ~InArray(l, fifties))) |->
             <<SelectSeq(twentyfives,
                  LAMBDA l : ~InArray(l, hundreds) /\ ~InArray(l, fifties))[i],
               "Round number (25s)">>]

InitPsych ==
    /\ last_close \in 1..MaxClose
    /\ nearby_pct = 0
    /\ psych_levels = <<>>

IdlePsych ==
    /\ last_close = 0
    /\ nearby_pct = 0
    /\ psych_levels = <<>>

FindPsychological ==
    /\ pc = "init"
    /\ \E pct \in 1..MaxPct :
         /\ nearby_pct' = pct
         /\ psych_levels' = FindPsychologicalLevels(last_close, pct)
    /\ pc' = "done"
    /\ UNCHANGED <<last_close, aggVars, swingVars, volVars, fibVars, pivotVars, lateVars>>

(***************************************************************************)
(* VolumeAnalysis.find_volume_clusters / calculate_volume_profile          *)
(***************************************************************************)
ClusterBins == 100          \* bin_size = price_range / 100
VolPrices   == {5000, 5050, 5100}
VolVolumes  == {1, 2}
VolBars     == {b \in [High : VolPrices, Low : VolPrices, Volume : VolVolumes] :
                   b.Low <= b.High}
ClusterCounts == {1, 10, 101}   \* num_clusters (default 10)
ProfileBins   == {4, 100}       \* num_bins (default 100)

RatLeq(a, b) == a[1] * b[2] <= b[1] * a[2]

RECURSIVE MaxOf(_)
MaxOf(x) == IF Len(x) = 1 THEN x[1]
            ELSE LET m == MaxOf(Tail(x)) IN IF x[1] > m THEN x[1] ELSE m

\* self.data['Low'].min(): NaN on an empty column
LowMin(data) == IF data = <<>> THEN NaN ELSE MinOf([i \in 1..Len(data) |-> data[i].Low])
\* self.data['High'].max(): NaN on an empty column
HighMax(data) == IF data = <<>> THEN NaN ELSE MaxOf([i \in 1..Len(data) |-> data[i].High])

\* np.arange(min_price, max_price + bin_size, bin_size) raises ValueError when the
\* length (max_price + bin_size - min_price) / bin_size is not a number: NaN bounds
\* of an empty series, or 0/0 of a zero bin size
ArangeRaises(data) ==
    IF data = <<>> THEN TRUE ELSE HighMax(data) - LowMin(data) = 0

\* bins[i] = min_price + i * bin_size, i = 0 .. nbins (nbins + 1 edges)
BinEdge(min_price, max_price, nbins, i) ==
    Rat(nbins * min_price + i * (max_price - min_price), nbins)

\* variant: the bar's High in place of its middle price
PricePoint_High(bar) == <<bar.High, 1>>

\* price_points = (High + Low) / 2
PricePoint(bar) == Rat(bar.High + bar.Low, 2)

RECURSIVE SumVolume(_)
SumVolume(data) == IF data = <<>> THEN 0 ELSE data[1].Volume + SumVolume(Tail(data))

\* data.loc[(price_points >= bins[i]) & (price_points < bins[i + 1]), 'Volume'].sum()
BinVolume(data, lo, hi) ==
    SumVolume(SelectSeq(data, LAMBDA bar :
        RatLeq(lo, PricePoint(bar)) /\ RatLess(PricePoint(bar), hi)))

\* volume_by_price over bins[:-1]: one [edge, volume] per bin
VolumeByPrice(data, nbins) ==
    LET lo == LowMin(data)
        hi == HighMax(data)
    IN [i \in 1..nbins |->
          [edge   |-> BinEdge(lo, hi, nbins, i - 1),
           upper  |-> BinEdge(lo, hi, nbins, i),
           volume |-> BinVolume(data, BinEdge(lo, hi, nbins, i - 1),
                                BinEdge(lo, hi, nbins, i))]]

\* the series in descending volume order, equal volumes in their order of appearance
RECURSIVE SortDescending(_, _)
SortDescending(series, volumes) ==
    IF volumes = {} THEN <<>>
    ELSE LET top == CHOOSE v \in volumes : \A w \in volumes : w <= v
         IN SelectSeq(series, LAMBDA b : b.volume = top)
            \o SortDescending(series, volumes \ {top})

\* volume_by_price.nlargest(n): the n largest in descending order, the first
\* occurrence first among equal volumes (keep='first')
NLargest(series, n) ==
    LET sorted == SortDescending(series, {series[i].volume : i \in 1..Len(series)})
    IN SubSeq(sorted, 1, IF n < Len(sorted) THEN n ELSE Len(sorted))

FindVolumeClusters(data, num_clusters) ==
    IF ArangeRaises(data)
    THEN [status |-> "ValueError"]
    ELSE LET top == NLargest(VolumeByPrice(data, ClusterBins), num_clusters)
         IN [status |-> "ok",
             levels |-> [j \in 1..Len(top) |-> <<top[j].edge, VolumeLabel>>]]

CalculateVolumeProfile(data, nbins) ==
    IF ArangeRaises(data)
    THEN [status |-> "ValueError"]
    ELSE LET series == VolumeByPrice(data, nbins)
         IN [status |-> "ok",
             bin_centers |-> [j \in 1..nbins |->
                Rat(series[j].edge[1] * series[j].upper[2]
                    + series[j].upper[1] * series[j].edge[2],
                    2 * series[j].edge[2] * series[j].upper[2])],
             volume_by_price |-> [j \in 1..nbins |-> series[j].volume],
             min_price |-> LowMin(data),
             max_price |-> HighMax(data),
             bin_size |-> Rat(HighMax(data) - LowMin(data), nbins)]

NoCall == [op |-> "none"]

InitVol ==
    /\ vol_data \in SeqsUpTo(VolBars, MaxVolBars)
    /\ vol_call = NoCall
    /\ vol_result = NoCall

IdleVol ==
    /\ vol_data = <<>>
    /\ vol_call = NoCall
    /\ vol_result = NoCall

FindClusters ==
    /\ pc = "init"
    /\ \E n \in ClusterCounts :
         /\ vol_call' = [op |-> "find_volume_clusters", num_clusters |-> n]
         /\ vol_result' = FindVolumeClusters(vol_data, n)
    /\ pc' = "done"
    /\ UNCHANGED <<vol_data, aggVars, swingVars, psychVars, fibVars, pivotVars, lateVars>>

VolumeProfile ==
    /\ pc = "init"
    /\ \E n \in ProfileBins :
         /\ vol_call' = [op |-> "calculate_volume_profile", num_bins |-> n]
         /\ vol_result' = CalculateVolumeProfile(vol_data, n)
    /\ pc' = "done"
    /\ UNCHANGED <<vol_data, aggVars, swingVars, psychVars, fibVars, pivotVars, lateVars>>

IdleFib ==
    /\ num_levels = 0
    /\ fib_levels = <<>>
    /\ fib_appended = <<>>

IdlePivot ==
    /\ window = 0
    /\ sr_support = <<>>
    /\ sr_resistance = <<>>

(***************************************************************************)
(* analysis/fibonacci.py: FibonacciAnalysis.calculate_fibonacci_levels and  *)
(* the loop of identify_levels that appends its result to all_levels.       *)
(***************************************************************************)
MaxDate      == 3
MaxFibLevels == 2
DefaultNumLevels == 3       \* num_levels=3
FibHighs == {5000, 5100}
FibLows  == {4900, 5050}

\* self.ratios, in thousandths
Ratios == <<0, 236, 382, 500, 618, 786, 1000>>

\* self.ratio_labels: int(ratio*100), with a percent sign except for 0 and 1
RatioLabel(r) ==
    IF r # 0 /\ r # 1000 THEN ToString(r \div 10) \o "%" ELSE ToString(r \div 10)

\* swing frames as identify_swing_points returns them: one row per date, in date order
HighFrames ==
    {SelectSeq([d \in 1..MaxDate |-> [High |-> f[d], Date |-> d]], LAMBDA r : r.High # 0) :
        f \in [1..MaxDate -> FibHighs \cup {0}]}
LowFrames ==
    {SelectSeq([d \in 1..MaxDate |-> [Low |-> f[d], Date |-> d]], LAMBDA r : r.Low # 0) :
        f \in [1..MaxDate -> FibLows \cup {0}]}

\* frame.nlargest(n, 'Date'): the n rows of latest Date, latest first
NLargestDate(frame, n) ==
    LET rows == {frame[i] : i \in 1..Len(frame)}
    IN [j \in 1..(IF n < Len(frame) THEN n ELSE Len(frame)) |->
          CHOOSE r \in rows : Cardinality({q \in rows : q.Date > r.Date}) = j - 1]

\* is_high: the latest swing high is later than the latest swing low
IsHigh_OrEqual(recent_highs, recent_lows) ==
    IF recent_highs # <<>> /\ recent_lows # <<>>
    THEN recent_highs[1].Date >= recent_lows[1].Date
    ELSE recent_highs # <<>>
IsHigh(recent_highs, recent_lows) ==
    IF recent_highs # <<>> /\ recent_lows # <<>>
    THEN recent_highs[1].Date > recent_lows[1].Date
    ELSE recent_highs # <<>>

\* min(num_levels, len(recent_highs), len(recent_lows))
PairCount(n, recent_highs, recent_lows) ==
    LET m == IF Len(recent_highs) < Len(recent_lows) THEN Len(recent_highs)
             ELSE Len(recent_lows)
    IN IF n < m THEN n ELSE m

\* swing_low + ratio * diff
FibLevel_FromHigh(swing_low, swing_high, r) ==
    Rat(1000 * swing_high - r * (swing_high - swing_low), 1000)
FibLevel(swing_low, swing_high, r) ==
    Rat(1000 * swing_low + r * (swing_high - swing_low), 1000)

FibKey(is_high, i) == (IF is_high THEN "Fib_Down_" ELSE "Fib_Up_") \o ToString(i)

\* fib_levels[key] = dict(zip(self.ratio_labels, levels))
FibEntry(swing_low, swing_high, is_high, i) ==
    [key |-> FibKey(is_high, i),
     levels |-> [k \in 1..Len(Ratios) |->
                   [ratio |-> RatioLabel(Ratios[k]),
                    level |-> FibLevel(swing_low, swing_high, Ratios[k])]]]

\* a variant that pairs the rows of a one-sided input with themselves
CalculateFibonacciLevels_OneSided(highs, lows, n) ==
    LET recent_highs == NLargestDate(highs, n)
        recent_lows  == NLargestDate(lows, n)
        is_high      == IsHigh(recent_highs, recent_lows)
        longest      == IF Len(recent_highs) < Len(recent_lows) THEN Len(recent_lows)
                        ELSE Len(recent_highs)
    IN [i \in 1..longest |->
          FibEntry(IF i <= Len(recent_lows) THEN recent_lows[i].Low
                   ELSE recent_highs[i].High,
                   IF i <= Len(recent_highs) THEN recent_highs[i].High
                   ELSE recent_lows[i].Low, is_high, i)]
\* the returned dict, as the sequence of its items in insertion order
CalculateFibonacciLevels(highs, lows, n) ==
    IF highs = <<>> \/ lows = <<>> THEN <<>>
    ELSE LET recent_highs == NLargestDate(highs, n)
             recent_lows  == NLargestDate(lows, n)
             is_high      == IsHigh(recent_highs, recent_lows)
         IN [i \in 1..PairCount(n, recent_highs, recent_lows) |->
               FibEntry(recent_lows[i].Low, recent_highs[i].High, is_high, i)]

\* identify_levels: all_levels.append((level, f"Fibonacci {ratio} ({key})"))
FibAppended(fib) ==
    [m \in 1..(Len(fib) * Len(Ratios)) |->
       LET entry == fib[((m - 1) \div Len(Ratios)) + 1]
           item  == entry.levels[((m - 1) % Len(Ratios)) + 1]
       IN <<item.level, "Fibonacci " \o item.ratio \o " (" \o entry.key \o ")">>]

InitFib ==
    /\ High = <<>>
    /\ Low = <<>>
    /\ order = 0
    /\ max_idx = <<>>
    /\ min_idx = <<>>
    /\ swing_highs \in HighFrames
    /\ swing_lows \in LowFrames
    /\ IdleFib

\* a call calculate_fibonacci_levels(swing_highs, swing_lows, n)
CalculateFibonacci ==
    /\ pc = "init"
    /\ \E n \in 0..MaxFibLevels :
         /\ num_levels' = n
         /\ fib_levels' = CalculateFibonacciLevels(swing_highs, swing_lows, n)
    /\ pc' = "done"
    /\ UNCHANGED <<aggVars, swingVars, psychVars, volVars, pivotVars, fib_appended, lateVars>>

\* identify_levels: the call with the default num_levels and the append loop
AppendFibonacci ==
    /\ pc = "init"
    /\ num_levels' = DefaultNumLevels
    /\ fib_levels' = CalculateFibonacciLevels(swing_highs, swing_lows, DefaultNumLevels)
    /\ fib_appended' = FibAppended(fib_levels')
    /\ pc' = "appended"
    /\ UNCHANGED <<aggVars, swingVars, psychVars, volVars, pivotVars, lateVars>>

(***************************************************************************)
(* analysis/price_action.py: PriceAction.identify_support_resistance.       *)
(***************************************************************************)
MaxWindow     == 6
DefaultWindow == 20         \* window=20
WindowSizes   == (4..MaxWindow) \cup {DefaultWindow}

\* series.tail(w)
TailOf(series, w) ==
    SubSeq(series, Len(series) - (IF w < Len(series) THEN w ELSE Len(series)) + 1,
           Len(series))

\* range(2, len(recent_data) - 2), as 1-based positions
PivotRange(n) == 3..(n - 2)

\* the four comparisons of the support loop
IsPivotLow_OrEqual(lows, i) ==
    /\ lows[i] <= lows[i - 1] /\ lows[i] <= lows[i - 2]
    /\ lows[i] <= lows[i + 1] /\ lows[i] <= lows[i + 2]
IsPivotLow(lows, i) ==
    /\ lows[i] < lows[i - 1] /\ lows[i] < lows[i - 2]
    /\ lows[i] < lows[i + 1] /\ lows[i] < lows[i + 2]

\* the four comparisons of the resistance loop
IsPivotHigh(highs, i) ==
    /\ highs[i] > highs[i - 1] /\ highs[i] > highs[i - 2]
    /\ highs[i] > highs[i + 1] /\ highs[i] > highs[i + 2]

SupportLevels(lows) ==
    LET at == SelectSeq([i \in 1..Len(lows) |-> i],
                        LAMBDA i : i \in PivotRange(Len(lows)) /\ IsPivotLow(lows, i))
    IN [j \in 1..Len(at) |-> <<lows[at[j]], PivotLabel>>]

ResistanceLevels(highs) ==
    LET at == SelectSeq([i \in 1..Len(highs) |-> i],
                        LAMBDA i : i \in PivotRange(Len(highs)) /\ IsPivotHigh(highs, i))
    IN [j \in 1..Len(at) |-> <<highs[at[j]], PivotLabel>>]

InitPivot ==
    /\ InitSwing
    /\ IdlePivot

\* a call identify_support_resistance(w)
IdentifySupportResistance ==
    /\ pc = "init"
    /\ \E w \in WindowSizes :
         /\ window' = w
         /\ sr_support' = SupportLevels(TailOf(Low, w))
         /\ sr_resistance' = ResistanceLevels(TailOf(High, w))
    /\ pc' = "done"
    /\ UNCHANGED <<aggVars, swingVars, psychVars, volVars, fibVars, lateVars>>

(***************************************************************************)
(* analysis/moving_averages.py: MovingAverages.                             *)
(***************************************************************************)
MaxMaBars    == 3       \* longest Close series of the moving-average runs
MaxMaColumns == 4       \* longest ma_columns list
MaCloses  == {100, 103}
MaWindows == {2, 3}

\* column_name = f'MA_{window}'
ColumnName(w) == "MA_" \o ToString(w)

\* the sum x[lo] + ... + x[hi]
RECURSIVE SumSlice(_, _, _)
SumSlice(x, lo, hi) ==
    IF lo > hi THEN 0
    ELSE IF lo = hi THEN x[lo]
    ELSE SumSlice(x, lo, (lo + hi) \div 2) + SumSlice(x, ((lo + hi) \div 2) + 1, hi)

\* close.rolling(window=w).mean().iloc[-1]: NaN until w closes are there
RollingLast(close, w) ==
    IF Len(close) < w THEN NaN
    ELSE Rat(SumSlice(close, Len(close) - w + 1, Len(close)), w)

\* the frame after df[column_name] = ... for each window in turn
RECURSIVE WithMaColumns(_, _)
WithMaColumns(df, windows) ==
    IF windows = <<>> THEN df
    ELSE LET name == ColumnName(windows[1])
             ma   == [c \in (DOMAIN df.MA) \cup {name} |->
                        IF c = name THEN RollingLast(df.Close, windows[1]) ELSE df.MA[c]]
         IN WithMaColumns([df EXCEPT !.MA = ma], Tail(windows))

\* self.ma_columns.append(column_name) for each window in turn
ColumnsAfter(columns, windows) ==
    columns \o [i \in 1..Len(windows) |-> ColumnName(windows[i])]

\* get_ma_levels reads self.data
MaSource(data, df) == data

\* ma in self.data.columns and not (value != value)
HasValue(frame, ma) == ma \in DOMAIN frame.MA /\ frame.MA[ma] # NaN

GetMaLevels(frame, columns) ==
    LET found == SelectSeq(columns, LAMBDA ma : HasValue(frame, ma))
    IN [i \in 1..Len(found) |->
          <<frame.MA[found[i]], found[i] \o " support/resistance">>]

NoColumns == [c \in {} |-> NaN]

\* a frame with the MA columns of the given windows already in it
Frame(close, windows) == WithMaColumns([Close |-> close, MA |-> NoColumns], windows)

InitMa ==
    /\ \E close \in SeqsUpTo(MaCloses, MaxMaBars) :
         \E windows \in {<<>>, <<2>>, <<2, 3>>} :
            /\ close = <<>> => windows = <<>>
            /\ ma_data = Frame(close, windows)
    /\ ma_columns = <<>>
    /\ ma_df = NoCall
    /\ ma_levels = <<>>

IdleMa ==
    /\ ma_data = NoCall
    /\ ma_columns = <<>>
    /\ ma_df = NoCall
    /\ ma_levels = <<>>

(***************************************************************************)
(* analysis/volatility.py: VolatilityAnalysis.analyze_vix.                  *)
(***************************************************************************)
MaxVixBars == 21        \* longest volatility series
VixWindow  == 20        \* rolling(window=20)
VixBases   == {15, 20}
VixLasts   == {15, 20, 25}
NoSignal   == "None"
BelowText  == "VIX below 20-day average - favorable for upside targets."
AboveText  == "VIX above 20-day average - may need to decrease for upside targets."

\* vix_data=None
NoVix == [given |-> FALSE, Close |-> <<>>]

\* a volatility series that stays at one value and ends on another
VixSeries(n, base, last) ==
    [given |-> TRUE, Close |-> [i \in 1..n |-> IF i = n THEN last ELSE base]]

\* current_vix < vix_ma20; a comparison with NaN is False
VixBelow(current_vix, vix_ma20) ==
    vix_ma20 # NaN /\ RatLess(<<current_vix, 1>>, vix_ma20)

AnalyzeVix(vix) ==
    IF ~vix.given \/ vix.Close = <<>> THEN NoSignal
    ELSE IF VixBelow(vix.Close[Len(vix.Close)], RollingLast(vix.Close, VixWindow))
         THEN BelowText
         ELSE AboveText

InitVix ==
    /\ vix_data \in {NoVix} \cup {VixSeries(n, base, last) :
                                     n \in 0..MaxVixBars, base \in VixBases, last \in VixLasts}
    /\ vix_text = NoSignal

IdleVix ==
    /\ vix_data = NoVix
    /\ vix_text = NoSignal

IdlePipe ==
    /\ bars = <<>>
    /\ results = <<>>

(***************************************************************************)
(* data/market_data.py: SchwabClientSingleton.                              *)
(***************************************************************************)
MaxConstructions == 3   \* most constructor calls in a run, the one at import included
MaxAccesses      == 3   \* most reads of .client in a run

None  == "None"
Unset == "<unset>"
Fields == {"api_key", "app_secret", "callback_url", "token_path"}

EnvName(f) ==
    CASE f = "api_key"      -> "SCHWAB_API_KEY"
      [] f = "app_secret"   -> "SCHWAB_APP_SECRET"
      [] f = "callback_url" -> "SCHWAB_CALLBACK_URL"
      [] f = "token_path"   -> "SCHWAB_TOKEN_PATH"

Default(f) ==
    CASE f = "api_key"      -> "key"
      [] f = "app_secret"   -> "secret"
      [] f = "callback_url" -> "https://127.0.0.1:8182"
      [] f = "token_path"   -> "token.json"

EnvNames == {EnvName(f) : f \in Fields}
Environs == [EnvNames -> {Unset, "from env"}]

\* the arguments of a constructor call: none, all four, api_key only, an empty api_key
NoArgs == [f \in Fields |-> None]
ConstructorArgs ==
    {NoArgs, [f \in Fields |-> "given"],
     [NoArgs EXCEPT !["api_key"] = "given"], [NoArgs EXCEPT !["api_key"] = ""]}

\* os.environ.get(name, default)
EnvironGet(env, name, default) == IF env[name] = Unset THEN default ELSE env[name]

\* arg or os.environ.get(name, default): None and "" are falsy
ArgOrEnv(arg, env, f) ==
    IF arg \notin {None, ""} THEN arg ELSE EnvironGet(env, EnvName(f), Default(f))

NoInstance == [id |-> 0]

\* __new__: a new object only while cls._instance is None
New(inst, count) ==
    IF inst = NoInstance THEN [id |-> count + 1, initialized |-> FALSE] ELSE inst

\* variant: __init__ without the early return
Initialized_Never(inst) == FALSE

\* if self._initialized: return
Initialized(inst) == inst.initialized

\* __init__ on the object __new__ returned
InitObject(inst, args, env) ==
    IF Initialized(inst) THEN inst
    ELSE [id           |-> inst.id,
          initialized  |-> TRUE,
          api_key      |-> ArgOrEnv(args["api_key"], env, "api_key"),
          app_secret   |-> ArgOrEnv(args["app_secret"], env, "app_secret"),
          callback_url |-> ArgOrEnv(args["callback_url"], env, "callback_url"),
          token_path   |-> ArgOrEnv(args["token_path"], env, "token_path"),
          client       |-> None]

\* the client object the n-th successful easy_client call returns
ClientId(n) == "client_" \o ToString(n)

Created(calls) == Cardinality({i \in 1..Len(calls) : calls[i].outcome # "raise"})

\* the class body has run, the module-level construction is about to
InitSingleton ==
    /\ environ \in Environs
    /\ instance = NoInstance
    /\ allocated = 0
    /\ constructed = <<>>
    /\ easy_calls = <<>>
    /\ accessed = <<>>

IdleSingleton ==
    /\ environ = [n \in EnvNames |-> Unset]
    /\ instance = NoInstance
    /\ allocated = 0
    /\ constructed = <<>>
    /\ easy_calls = <<>>
    /\ accessed = <<>>

IdleLate == IdleMa /\ IdleVix /\ IdlePipe /\ IdleSingleton

\* SchwabClientSingleton(...): __new__ then __init__; the first call is the
\* module-level client = SchwabClientSingleton()
Construct ==
    /\ Len(constructed) < MaxConstructions
    /\ \E args \in (IF constructed = <<>> THEN {NoArgs} ELSE ConstructorArgs) :
          LET obj == InitObject(New(instance, allocated), args, environ)
          IN /\ instance' = obj
             /\ allocated' = IF instance = NoInstance THEN allocated + 1 ELSE allocated
             /\ constructed' = Append(constructed, [args |-> args, returned |-> obj.id])
    /\ UNCHANGED <<environ, easy_calls, accessed, pc>>
    /\ UNCHANGED <<aggVars, swingVars, psychVars, volVars, fibVars, pivotVars,
                   maVars, vixVars, pipeVars>>

\* a read of the property client; easy_client returns a client or raises
AccessClient ==
    /\ instance # NoInstance
    /\ Len(accessed) < MaxAccesses
    /\ IF instance.client = None
       THEN \E outcome \in {ClientId(Created(easy_calls) + 1), "raise"} :
              /\ easy_calls' = Append(easy_calls,
                                      [api_key      |-> instance.api_key,
                                       app_secret   |-> instance.app_secret,
                                       callback_url |-> instance.callback_url,
                                       token_path   |-> instance.token_path,
                                       outcome      |-> outcome])
              /\ instance' = IF outcome = "raise" THEN instance
                             ELSE [instance EXCEPT !.client = outcome]
              /\ accessed' = Append(accessed, outcome)
       ELSE /\ accessed' = Append(accessed, instance.client)
            /\ UNCHANGED <<easy_calls, instance>>
    /\ UNCHANGED <<environ, allocated, constructed, pc>>
    /\ UNCHANGED <<aggVars, swingVars, psychVars, volVars, fibVars, pivotVars,
                   maVars, vixVars, pipeVars>>

\* a call analyze_vix()
AnalyzeVolatility ==
    /\ pc = "init"
    /\ vix_text' = AnalyzeVix(vix_data)
    /\ pc' = "done"
    /\ UNCHANGED <<vix_data, maVars, pipeVars, clientVars>>
    /\ UNCHANGED <<aggVars, swingVars, psychVars, volVars, fibVars, pivotVars>>


\* a call calculate_mas(windows)
CalculateMas ==
    /\ \E windows \in UNION {[1..m -> MaWindows] : m \in 1..2} :
         /\ Len(ma_columns) + Len(windows) <= MaxMaColumns
         /\ ma_df' = WithMaColumns(ma_data, windows)
         /\ ma_columns' = ColumnsAfter(ma_columns, windows)
    /\ UNCHANGED <<ma_data, ma_levels, pc, vixVars, pipeVars, clientVars>>
    /\ UNCHANGED <<aggVars, swingVars, psychVars, volVars, fibVars, pivotVars>>

\* a call get_ma_levels()
MaLevels ==
    /\ ma_levels' = GetMaLevels(MaSource(ma_data, ma_df), ma_columns)
    /\ pc' = "done"
    /\ UNCHANGED <<ma_data, ma_columns, ma_df, vixVars, pipeVars, clientVars>>
    /\ UNCHANGED <<aggVars, swingVars, psychVars, volVars, fibVars, pivotVars>>

(***************************************************************************)
(* main.py: analyze_market, and TechnicalLevels.identify_levels run on the  *)
(* analyzers it builds.  The generators return prices that are fractions;   *)
(* the list is brought to a common denominator, handed to the sort and the  *)
(* grouping above, and the group prices are divided by it again (ordering,  *)
(* the relative threshold and the mean are unchanged by the scaling).       *)
(***************************************************************************)
MaxPipeBars == 6        \* longest short series
LongBars    == 50       \* length of the long series
MaxRuns     == 2        \* calls of identify_levels in one behaviour
PipeBase    == 5000
PipeTick    == 10
PipeSpreads == {0, 20}
PipeShapes  == {"flat", "rise", "tent", "zigzag"}
PipelineWindows == <<50, 200>>      \* calculate_mas(windows=[50, 200])
DefaultOrder    == 20               \* order=20
DefaultClusters == 10               \* num_clusters=10
DefaultPct      == 2                \* nearby_pct=2.0

\* ticks above PipeBase of bar i of n
Height(n, shape, i) ==
    LET peak   == IF shape = "tent" THEN (n + 1) \div 2 ELSE (n + 3) \div 4
        trough == (3 * n + 1) \div 4
    IN IF shape = "flat" THEN 0
       ELSE IF shape = "rise" \/ i <= peak THEN i - 1
       ELSE IF shape = "tent" \/ i <= trough THEN 2 * (peak - 1) - (i - 1)
       ELSE 2 * (peak - 1) - 2 * (trough - 1) + (i - 1)

PipeSeries(n, shape, spread, close_at) ==
    [i \in 1..n |->
       LET high == PipeBase + PipeTick * Height(n, shape, i)
       IN [High |-> high, Low |-> high - spread,
           Close |-> IF close_at = "high" THEN high ELSE high - spread,
           Volume |-> 1 + (i % 2)]]

PipeData ==
    {PipeSeries(n, shape, spread, close_at) :
        n \in (0..MaxPipeBars) \cup {LongBars}, shape \in PipeShapes,
        spread \in PipeSpreads, close_at \in {"high", "low"}}

\* the volatility analyzers analyze_market may pass on
PipeVix == {NoVix, VixSeries(VixWindow, 20, 15), VixSeries(VixWindow, 20, 25)}

\* a list of integer-priced levels, with the prices as fractions
AsLevels(levels) == [i \in 1..Len(levels) |-> <<<<levels[i][1], 1>>, levels[i][2]>>]

Lcm(a, b) == (a * b) \div GCD(a, b)

RECURSIVE CommonDen(_)
CommonDen(levels) ==
    IF levels = <<>> THEN 1 ELSE Lcm(levels[1][1][2], CommonDen(Tail(levels)))

Scaled(levels, den) ==
    [i \in 1..Len(levels) |-> <<levels[i][1][1] * (den \div levels[i][1][2]), levels[i][2]>>]

\* variant: self.all_levels.extend(...)
Combined_Extend(before, emitted) == before \o emitted
\* self.all_levels = volume_levels + psych_levels + support + resistance + ma_levels
Combined(before, emitted) == emitted

\* variant: the advisory text decides which resistance levels are reported
Returned_Filtered(price, support, resistance, strength, grouped, vix) ==
    [status |-> "ok", current_price |-> price, support_levels |-> support,
     resistance_levels |-> IF AnalyzeVix(vix) = AboveText THEN <<>> ELSE resistance,
     level_strength |-> strength, vix_analysis |-> AnalyzeVix(vix),
     all_levels |-> grouped]
\* the dict identify_levels returns
Returned(price, support, resistance, strength, grouped, vix) ==
    [status |-> "ok", current_price |-> price, support_levels |-> support,
     resistance_levels |-> resistance, level_strength |-> strength,
     vix_analysis |-> AnalyzeVix(vix), all_levels |-> grouped]

\* identify_levels(swing_highs, swing_lows) on a TechnicalLevels object t
IdentifyLevelsOn(t) ==
    LET fib    == CalculateFibonacciLevels(t.swing_highs, t.swing_lows, DefaultNumLevels)
        volume == FindVolumeClusters(t.data, DefaultClusters)
    IN IF volume.status # "ok" THEN [status |-> volume.status]
       ELSE
         LET closes     == [i \in 1..Len(t.data) |-> t.data[i].Close]
             psych      == AsLevels(FindPsychologicalLevels(closes[Len(closes)], DefaultPct))
             support    == AsLevels(SupportLevels(
                              TailOf([i \in 1..Len(t.data) |-> t.data[i].Low], DefaultWindow)))
             resistance == AsLevels(ResistanceLevels(
                              TailOf([i \in 1..Len(t.data) |-> t.data[i].High], DefaultWindow)))
             ma         == GetMaLevels(MaSource(t.ma_data, t.ma_df), t.ma_columns)
             combined   == Combined(t.all_levels,
                                    volume.levels \o psych \o support \o resistance \o ma)
                              \o FibAppended(fib)
             den        == CommonDen(combined)
             sorted     == SortByPrice(Scaled(combined, den), <<>>)
             scaled     == GroupLevels(sorted)
             grouped    == [g \in 1..Len(scaled) |->
                              <<Rat(scaled[g][1][1], scaled[g][1][2] * den), scaled[g][2]>>]
             strength   == CalculateStrength(grouped, EmptyDict)
             sup        == SortByStrength(ClassifySupport(grouped, t.current_price), strength)
             res        == SortByStrength(ClassifyResistance(grouped, t.current_price), strength)
         IN [status |-> "ok",
             generated |-> combined,
             all_levels |-> [i \in 1..Len(sorted) |-> <<Rat(sorted[i][1], den), sorted[i][2]>>],
             grouped_levels |-> grouped,
             level_strength |-> strength,
             support_levels |-> sup,
             resistance_levels |-> res,
             result |-> Returned(t.current_price, sup, res, strength, grouped, t.vix)]

InitPipe ==
    /\ bars \in PipeData
    /\ results = <<>>

\* the fields of the TechnicalLevels object after the call, and the value returned
AfterCall(t, run) ==
    /\ current_price' = t.current_price
    /\ IF run.status = "ok"
       THEN /\ generated' = run.generated
            /\ all_levels' = run.all_levels
            /\ grouped_levels' = run.grouped_levels
            /\ level_strength' = run.level_strength
            /\ support_levels' = run.support_levels
            /\ resistance_levels' = run.resistance_levels
            /\ results' = Append(results, run.result)
       ELSE /\ generated' = <<>>
            /\ all_levels' = t.all_levels
            /\ grouped_levels' = t.grouped_levels
            /\ level_strength' = t.level_strength
            /\ support_levels' = t.support_levels
            /\ resistance_levels' = t.resistance_levels
            /\ results' = Append(results, [status |-> run.status])

\* analyze_market: fetch, build the analyzers, calculate_mas, identify_swing_points,
\* build TechnicalLevels and call identify_levels
AnalyzeMarket ==
    /\ Len(results) < MaxRuns
    /\ pc' = "done"
    /\ IF bars = <<>>
       THEN /\ results' = Append(results, [status |-> "no data"])
            /\ UNCHANGED <<aggVars, swingVars, maVars, vixVars>>
       ELSE \E vix \in PipeVix :
              LET highs == [i \in 1..Len(bars) |-> bars[i].High]
                  lows  == [i \in 1..Len(bars) |-> bars[i].Low]
                  df    == DropNa(SmoothedFrame(highs, lows))
                  mx    == SwingMaxIdx(df, DefaultOrder)
                  mn    == SwingMinIdx(df, DefaultOrder)
                  sh    == [j \in 1..Len(mx) |->
                              [High |-> df[mx[j] + 1].High, Date |-> df[mx[j] + 1].Date]]
                  sl    == [j \in 1..Len(mn) |->
                              [Low |-> df[mn[j] + 1].Low, Date |-> df[mn[j] + 1].Date]]
                  frame == Frame([i \in 1..Len(bars) |-> bars[i].Close], <<>>)
                  t     == [data |-> bars, swing_highs |-> sh, swing_lows |-> sl,
                            ma_data |-> frame,
                            ma_df |-> WithMaColumns(frame, PipelineWindows),
                            ma_columns |-> ColumnsAfter(<<>>, PipelineWindows),
                            vix |-> vix, current_price |-> bars[Len(bars)].Close,
                            all_levels |-> <<>>, grouped_levels |-> <<>>,
                            level_strength |-> EmptyDict, support_levels |-> <<>>,
                            resistance_levels |-> <<>>]
              IN /\ High' = highs
                 /\ Low' = lows
                 /\ order' = DefaultOrder
                 /\ max_idx' = mx
                 /\ min_idx' = mn
                 /\ swing_highs' = sh
                 /\ swing_lows' = sl
                 /\ ma_data' = t.ma_data
                 /\ ma_df' = t.ma_df
                 /\ ma_columns' = t.ma_columns
                 /\ ma_levels' = ma_levels
                 /\ vix_data' = vix
                 /\ vix_text' = vix_text
                 /\ AfterCall(t, IdentifyLevelsOn(t))
    /\ UNCHANGED <<bars, psychVars, volVars, fibVars, pivotVars, clientVars>>

\* a further call identify_levels(swing_highs, swing_lows) on the same object
IdentifyLevelsAgain ==
    /\ pc = "done"
    /\ bars # <<>>
    /\ Len(results) < MaxRuns
    /\ LET t == [data |-> bars, swing_highs |-> swing_highs, swing_lows |-> swing_lows,
                 ma_data |-> ma_data, ma_df |-> ma_df, ma_columns |-> ma_columns,
                 vix |-> vix_data, current_price |-> current_price,
                 all_levels |-> all_levels, grouped_levels |-> grouped_levels,
                 level_strength |-> level_strength, support_levels |-> support_levels,
                 resistance_levels |-> resistance_levels]
       IN AfterCall(t, IdentifyLevelsOn(t))
    /\ UNCHANGED <<bars, pc, swingVars, maVars, vixVars, psychVars, volVars, fibVars, pivotVars,
                   clientVars>>

(***************************************************************************)
(* Specifications: one per component under analysis.                       *)
(***************************************************************************)
Init == InitAgg /\ IdleSwing /\ IdlePsych /\ IdleVol /\ IdleFib /\ IdlePivot /\ IdleLate /\ pc = "init"
Next == IdentifyLevels
Spec == Init /\ [][Next]_vars

SwingInit == IdleAgg /\ InitSwing /\ IdlePsych /\ IdleVol /\ IdleFib /\ IdlePivot /\ IdleLate
             /\ pc = "init"
SwingNext == IdentifySwingPoints
SpecSwing == SwingInit /\ [][SwingNext]_vars

PsychInit == IdleAgg /\ IdleSwing /\ InitPsych /\ IdleVol /\ IdleFib /\ IdlePivot /\ IdleLate
             /\ pc = "init"
PsychNext == FindPsychological
SpecPsych == PsychInit /\ [][PsychNext]_vars

VolInit == IdleAgg /\ IdleSwing /\ IdlePsych /\ InitVol /\ IdleFib /\ IdlePivot /\ IdleLate
           /\ pc = "init"
VolNext == FindClusters \/ VolumeProfile
SpecVol == VolInit /\ [][VolNext]_vars

FibInit == IdleAgg /\ InitFib /\ IdlePsych /\ IdleVol /\ IdlePivot /\ IdleLate /\ pc = "init"
FibNext == CalculateFibonacci \/ AppendFibonacci
SpecFib == FibInit /\ [][FibNext]_vars

PivotInit == IdleAgg /\ InitPivot /\ IdlePsych /\ IdleVol /\ IdleFib /\ IdleLate /\ pc = "init"
PivotNext == IdentifySupportResistance
SpecPivot == PivotInit /\ [][PivotNext]_vars

MaInit == IdleAgg /\ IdleSwing /\ IdlePsych /\ IdleVol /\ IdleFib /\ IdlePivot /\ InitMa
          /\ IdleVix /\ IdlePipe /\ IdleSingleton /\ pc = "init"
MaNext == CalculateMas \/ MaLevels
SpecMa == MaInit /\ [][MaNext]_vars

VixInit == IdleAgg /\ IdleSwing /\ IdlePsych /\ IdleVol /\ IdleFib /\ IdlePivot /\ IdleMa
           /\ InitVix /\ IdlePipe /\ IdleSingleton /\ pc = "init"
VixNext == AnalyzeVolatility
SpecVix == VixInit /\ [][VixNext]_vars

PipeInit == IdleAgg /\ IdleSwing /\ IdlePsych /\ IdleVol /\ IdleFib /\ IdlePivot /\ IdleMa
            /\ IdleVix /\ InitPipe /\ IdleSingleton /\ pc = "init"
PipeNext == AnalyzeMarket \/ IdentifyLevelsAgain
SpecPipe == PipeInit /\ [][PipeNext]_vars

SingletonInit == IdleAgg /\ IdleSwing /\ IdlePsych /\ IdleVol /\ IdleFib /\ IdlePivot /\ IdleMa
                 /\ IdleVix /\ IdlePipe /\ InitSingleton /\ pc = "init"
SingletonNext == Construct \/ AccessClient
SpecSingleton == SingletonInit /\ [][SingletonNext]_vars

(***************************************************************************)
(* Properties of the aggregation (specification Spec).                     *)
(***************************************************************************)
Done == pc = "done"

\* members of group g are all_levels[GroupStart(g) .. GroupStart(g) + GroupSize(g) - 1]
GroupSize(g) == Len(grouped_levels[g][2])
RECURSIVE GroupStart(_)
GroupStart(g) == IF g = 1 THEN 1 ELSE GroupStart(g - 1) + GroupSize(g - 1)
GroupMembers(g) == SubSeq(all_levels, GroupStart(g), GroupStart(g) + GroupSize(g) - 1)
\* the group that position i of all_levels went to
GroupOf(i) == Cardinality({g \in 1..Len(grouped_levels) : GroupStart(g) <= i})

PriceAt(i) == all_levels[i][1]
Near(a, b) == Abs(b - a) * ThresholdDen < ThresholdNum * a

\* C1: two consecutive levels a, b of the sorted list are in the same group exactly
\* when |price(b) - price(a)| / price(a) < threshold: the test is against the last
\* level added to the open group, and it fails for every pair split by a boundary.
C1_GroupingInvariant ==
    Done => \A i \in 1..(Len(all_levels) - 1) :
               (GroupOf(i) = GroupOf(i + 1)) <=> Near(PriceAt(i), PriceAt(i + 1))

\* C1 witness: a group was built whose first and last members are farther apart
\* than the threshold.
C1_Witness ==
    /\ Done
    /\ \E g \in 1..Len(grouped_levels) :
          /\ GroupSize(g) >= 3
          /\ ~Near(GroupMembers(g)[1][1], GroupMembers(g)[GroupSize(g)][1])

\* C2: a group's representative price is the arithmetic mean of its members' prices
\* and its sources are the members' labels in sorted-price order; levels at 5000 and
\* 5005 give one group at 5002.5 that carries both labels.
C2_MeanAndSources ==
    Done =>
      /\ \A g \in 1..Len(grouped_levels) :
            LET m == GroupMembers(g)
                avg == grouped_levels[g][1]
            IN /\ Len(m) = GroupSize(g)
               /\ avg[1] * Len(m) = avg[2] * SumPrices(m)
               /\ \A j \in 1..Len(m) : grouped_levels[g][2][j] = m[j][2]
      /\ (Len(all_levels) = 2 /\ PriceAt(1) = 5000 /\ PriceAt(2) = 5005) =>
            grouped_levels = << <<(<<10005, 2>>), <<all_levels[1][2], all_levels[2][2]>> >> >>

\* C2 witness: the scenario of the claim, with two different labels merged.
C2_Witness ==
    /\ Done
    /\ Len(all_levels) = 2 /\ PriceAt(1) = 5000 /\ PriceAt(2) = 5005
    /\ all_levels[1][2] # all_levels[2][2]
    /\ Len(grouped_levels) = 1

Occurrences(x, list) == Cardinality({i \in 1..Len(list) : list[i] = x})

\* C3: support and resistance partition the groups: each group is in exactly one of
\* the two lists, in support iff its representative price is strictly below the
\* current price; a group at the current price is in resistance.
C3_Classification ==
    Done =>
      /\ \A g \in 1..Len(grouped_levels) :
            LET grp == grouped_levels[g]
                below == grp[1][1] < current_price * grp[1][2]
            IN /\ Occurrences(grp, support_levels) = (IF below THEN 1 ELSE 0)
               /\ Occurrences(grp, resistance_levels) = (IF below THEN 0 ELSE 1)
      /\ Len(support_levels) + Len(resistance_levels) = Len(grouped_levels)

\* C3 witness: one group below the current price and one exactly at it.
C3_Witness ==
    /\ Done
    /\ \E g \in 1..Len(grouped_levels) : grouped_levels[g][1] = <<current_price, 1>>
    /\ support_levels # <<>>
    /\ \E i \in 1..Len(resistance_levels) : resistance_levels[i][1] = <<current_price, 1>>

CountLabels(sources, L) == Cardinality({j \in 1..Len(sources) : sources[j] \in L})

\* C4: strength = number of member sources (duplicates counted) + number of members
\* labelled Volume / price action + (fibCount - 1 when fibCount > 1).
C4_Strength ==
    Done =>
      /\ DOMAIN level_strength = {grouped_levels[g][1] : g \in 1..Len(grouped_levels)}
      /\ \A g \in 1..Len(grouped_levels) :
            LET src == grouped_levels[g][2]
                fibCount == CountLabels(src, {FibLabel})
            IN level_strength[grouped_levels[g][1]] =
                  Len(src) + CountLabels(src, {VolumeLabel, PivotLabel})
                  + (IF fibCount > 1 THEN fibCount - 1 ELSE 0)

\* C4 witness: a group with two Fibonacci members and a Volume member (strength 5),
\* and a group with the same label twice.
C4_Witness ==
    /\ Done
    /\ \E g \in 1..Len(grouped_levels) :
          /\ CountLabels(grouped_levels[g][2], {FibLabel}) = 2
          /\ CountLabels(grouped_levels[g][2], {VolumeLabel}) = 1
          /\ level_strength[grouped_levels[g][1]] = 5

Ranked(list) ==
    \A i, j \in 1..Len(list) :
        i < j =>
          /\ level_strength[list[i][1]] >= level_strength[list[j][1]]
          /\ level_strength[list[i][1]] = level_strength[list[j][1]]
                => RatLess(list[i][1], list[j][1])

\* C5: support and resistance are each in non-increasing strength order, and groups
\* of equal strength keep the ascending-price order of the grouping pass.
C5_Ranking == Done => Ranked(support_levels) /\ Ranked(resistance_levels)

\* C5 witness: a list of three groups where the sort moved a stronger group to the
\* front and left two groups of equal strength in price order.
C5_Witness ==
    /\ Done
    /\ Len(support_levels) = 3
    /\ level_strength[support_levels[1][1]] > level_strength[support_levels[2][1]]
    /\ level_strength[support_levels[2][1]] = level_strength[support_levels[3][1]]
    /\ RatLess(support_levels[2][1], support_levels[1][1])

(***************************************************************************)
(* Properties of the swing-point detection (specification SpecSwing).      *)
(***************************************************************************)
\* length of the smoothed sequence: the bars left once the incomplete windows are dropped
SmoothLen == IF Len(High) >= Window THEN Len(High) - Window + 1 ELSE 0
\* three times the smoothed value at 0-based position i
SmoothHigh3(i) == High[i + 1] + High[i + 2] + High[i + 3]
SmoothLow3(i) == Low[i + 1] + Low[i + 2] + Low[i + 3]
Positions == 0..(SmoothLen - 1)
Elems(seq) == {seq[j] : j \in 1..Len(seq)}
Neighbours(i) == {j \in Positions : j # i /\ Abs(i - j) <= order}

\* C6: no swing high or swing low is reported at a position i of the smoothed
\* sequence with i < k or i > length-1-k.
C6_NoBoundaryExtrema ==
    Done => \A i \in Elems(max_idx) \cup Elems(min_idx) :
               i >= order /\ i <= SmoothLen - 1 - order

\* C7: a smoothed sequence of length <= 2k+1 gives empty swing-high and swing-low
\* sets; a longer one is searched: every position with k neighbours on both sides
\* that is strictly above (below) all of them is reported with its High (Low) and bar.
C7_ShortSeries ==
    Done =>
      /\ SmoothLen <= 2 * order + 1 => swing_highs = <<>> /\ swing_lows = <<>>
      /\ SmoothLen > 2 * order + 1 =>
            \A i \in Positions :
               (i >= order /\ i <= SmoothLen - 1 - order) =>
                 /\ (\A j \in Neighbours(i) : SmoothHigh3(i) > SmoothHigh3(j)) =>
                       [High |-> High[i + Window], Date |-> i + Window - 1] \in Elems(swing_highs)
                 /\ (\A j \in Neighbours(i) : SmoothLow3(i) < SmoothLow3(j)) =>
                       [Low |-> Low[i + Window], Date |-> i + Window - 1] \in Elems(swing_lows)

\* C7 witness: a smoothed sequence of exactly 2k+1 values whose middle value is a
\* strict peak of the whole sequence, and nothing was reported.
C7_Witness ==
    /\ Done
    /\ SmoothLen = 2 * order + 1
    /\ \A j \in Neighbours(order) : SmoothHigh3(order) > SmoothHigh3(j)
    /\ swing_highs = <<>> /\ swing_lows = <<>>

\* C8: a position whose smoothed value equals the smoothed value of another position
\* at distance 1..k is reported neither as a swing high (High_Smooth) nor as a swing
\* low (Low_Smooth).
C8_TiesNotExtrema ==
    Done => \A i \in Positions :
              /\ (\E j \in Neighbours(i) : SmoothHigh3(i) = SmoothHigh3(j)) =>
                     i \notin Elems(max_idx)
              /\ (\E j \in Neighbours(i) : SmoothLow3(i) = SmoothLow3(j)) =>
                     i \notin Elems(min_idx)

\* C8 witness: the search ran over a flat top: position i ties with a neighbour, no
\* neighbour is above it, and it was not reported.
C8_Witness ==
    /\ Done
    /\ SmoothLen > 2 * order + 1
    /\ \E i \in Positions :
          /\ i >= order /\ i <= SmoothLen - 1 - order
          /\ \E j \in Neighbours(i) : SmoothHigh3(i) = SmoothHigh3(j)
          /\ \A j \in Neighbours(i) : SmoothHigh3(i) >= SmoothHigh3(j)
          /\ i \notin Elems(max_idx)
    /\ max_idx # <<>>

StrictlyIncreasing(x) == \A i \in 1..(Len(x) - 1) : x[i] < x[i + 1]
StrictlyDecreasing(x) == \A i \in 1..(Len(x) - 1) : x[i] > x[i + 1]

\* C9: a strictly increasing series of more than 2k+3 bars has no swing high, a
\* strictly decreasing one no swing low.
C9_Monotonic ==
    (Done /\ Len(High) > 2 * order + 3) =>
      /\ (StrictlyIncreasing(High) /\ StrictlyIncreasing(Low)) => swing_highs = <<>>
      /\ (StrictlyDecreasing(High) /\ StrictlyDecreasing(Low)) => swing_lows = <<>>

\* C9 witness: the search ran on a strictly increasing series and found no swing high.
C9_Witness ==
    /\ Done
    /\ Len(High) > 2 * order + 3
    /\ StrictlyIncreasing(High) /\ StrictlyIncreasing(Low)
    /\ swing_highs = <<>>

(***************************************************************************)
(* Properties of the psychological levels (specification SpecPsych).       *)
(***************************************************************************)
InsideWindow(level, price, pct) ==
    /\ price * (100 - pct) <= level * 100
    /\ level * 100 <= price * (100 + pct)

\* C10: every emitted level lies inside [c - c*p/100, c + c*p/100]; for c = 400 and
\* p = 2 the only emitted multiple of 100 is 400 and every level lies in [392, 408].
C10_InsideWindow ==
    Done =>
      /\ \A i \in 1..Len(psych_levels) :
            InsideWindow(psych_levels[i][1], last_close, nearby_pct)
      /\ (last_close = 400 /\ nearby_pct = 2) =>
            /\ {l \in Elems(psych_levels) : l[2] = "Round number (100s)"}
                  = {<<400, "Round number (100s)">>}
            /\ \A l \in Elems(psych_levels) : l[1] >= 392 /\ l[1] <= 408

\* C11: every multiple of 25 inside [c - c*p/100, c + c*p/100] is emitted, also one
\* that coincides with the lower or the upper bound of the window.
C11_AllMultiplesEmitted ==
    Done => \A k \in 0..((2 * last_close) \div 25 + 1) :
               InsideWindow(25 * k, last_close, nearby_pct) =>
                  \E i \in 1..Len(psych_levels) : psych_levels[i][1] = 25 * k

PsychLabelOf(price) ==
    IF price % 100 = 0 THEN "Round number (100s)"
    ELSE IF price % 50 = 0 THEN "Round number (50s)"
    ELSE "Round number (25s)"

PsychRank(label) ==
    IF label = "Round number (100s)" THEN 1
    ELSE IF label = "Round number (50s)" THEN 2 ELSE 3

\* C12: no price is emitted twice; a multiple of 100 carries only the 100s label, a
\* multiple of 50 that is no multiple of 100 only the 50s label, every other multiple
\* of 25 only the 25s label; the 100s come before the 50s and the 50s before the 25s.
C12_PriorityLabels ==
    Done =>
      /\ \A i, j \in 1..Len(psych_levels) :
            i < j =>
              /\ psych_levels[i][1] # psych_levels[j][1]
              /\ PsychRank(psych_levels[i][2]) <= PsychRank(psych_levels[j][2])
      /\ \A i \in 1..Len(psych_levels) :
            /\ psych_levels[i][1] % 25 = 0
            /\ psych_levels[i][2] = PsychLabelOf(psych_levels[i][1])

\* C12 witness: a result with all three labels, where a multiple of 100 was also in
\* the 50s and 25s ranges and was emitted once.
C12_Witness ==
    /\ Done
    /\ \E i, j, k \in 1..Len(psych_levels) :
          /\ psych_levels[i][2] = "Round number (100s)"
          /\ psych_levels[j][2] = "Round number (50s)"
          /\ psych_levels[k][2] = "Round number (25s)"
          /\ psych_levels[k][1] < psych_levels[i][1]
          /\ psych_levels[j][1] < psych_levels[i][1]

(***************************************************************************)
(* Properties of the volume analysis (specification SpecVol).              *)
(***************************************************************************)
Clustered == Done /\ vol_call.op = "find_volume_clusters"
Profiled == Done /\ vol_call.op = "calculate_volume_profile"

SeriesLow == MinOf([i \in 1..Len(vol_data) |-> vol_data[i].Low])
SeriesRange == MaxOf([i \in 1..Len(vol_data) |-> vol_data[i].High]) - SeriesLow

\* summed Volume of the bars whose middle price is in bin i (0-based) of n equal bins
\* of [min(Low), max(High)], each bin closed below and open above
VolumeInBin(i, n) ==
    SumVolume(SelectSeq(vol_data, LAMBDA b :
        /\ 2 * (n * SeriesLow + i * SeriesRange) <= n * (b.High + b.Low)
        /\ n * (b.High + b.Low) < 2 * (n * SeriesLow + (i + 1) * SeriesRange)))

\* the bin whose lower edge is the price q
BinOfEdge(q, n) == (n * q[1] - n * q[2] * SeriesLow) \div (q[2] * SeriesRange)

C14_EmptySeries ==
    (Done /\ vol_data = <<>>) =>
      /\ vol_result.status = "ok"
      /\ Clustered => vol_result.levels = <<>>
      /\ Profiled => vol_result.volume_by_price = <<>>

\* C15: when min(Low) = max(High) both methods return (an empty or single-bin
\* result) and do not propagate an arithmetic fault.
C15_DegenerateRange ==
    (Done /\ vol_data # <<>> /\ SeriesRange = 0) =>
      /\ vol_result.status = "ok"
      /\ Clustered => Len(vol_result.levels) <= 1
      /\ Profiled => Len(vol_result.volume_by_price) <= 1

\* C16: in the volume profile every bar's volume is in exactly one bin: the bin
\* volumes add up to the total Volume of the series, also when a bar's midpoint is
\* max(High).
C16_VolumeConserved ==
    (Profiled /\ vol_result.status = "ok") =>
      SumVolume([j \in 1..Len(vol_result.volume_by_price) |->
                   [Volume |-> vol_result.volume_by_price[j]]])
         = SumVolume(vol_data)

(***************************************************************************)
(* Properties of the Fibonacci analysis (specification SpecFib).           *)
(***************************************************************************)
FibReturned == pc \in {"done", "appended"}

\* the i-th most recent row of a frame kept in date order
Recent(frame, i) == frame[Len(frame) - i + 1]

RetracementRatios == <<0, 236, 382, 500, 618, 786, 1000>>

\* C17: calculate_fibonacci_levels(highs, lows, N) returns exactly
\* min(N, |highs|, |lows|) pairs; pair i is built from the i-th most recent swing
\* high and the i-th most recent swing low and holds the seven levels
\* low + r * (high - low) for r = 0, 0.236, 0.382, 0.5, 0.618, 0.786, 1, whatever the
\* direction; its ratio-0 level is the low and its ratio-1 level the high.
C17_FibonacciPairs ==
    FibReturned =>
      LET m == IF Len(swing_highs) < Len(swing_lows) THEN Len(swing_highs)
               ELSE Len(swing_lows)
          count == IF num_levels < m THEN num_levels ELSE m
      IN /\ Len(fib_levels) = count
         /\ \A i \in 1..count :
              LET high == Recent(swing_highs, i).High
                  low  == Recent(swing_lows, i).Low
                  lv   == fib_levels[i].levels
              IN /\ Len(lv) = 7
                 /\ \A k \in 1..7 :
                      lv[k].level[1] * 1000
                         = lv[k].level[2] * (1000 * low + RetracementRatios[k] * (high - low))
                 /\ lv[1].level = <<low, 1>>
                 /\ lv[7].level = <<high, 1>>

\* C17 witness: two pairs were asked for out of three swing highs and three swing
\* lows, the two most recent highs differ, and the second pair has its high below
\* its low.
C17_Witness ==
    /\ pc = "done"
    /\ num_levels = 2
    /\ Len(swing_highs) = 3 /\ Len(swing_lows) = 3
    /\ Len(fib_levels) = 2
    /\ Recent(swing_highs, 1).High # Recent(swing_highs, 2).High
    /\ Recent(swing_highs, 2).High < Recent(swing_lows, 2).Low
    /\ fib_levels[2].levels[7].level = <<Recent(swing_highs, 2).High, 1>>

\* C18: all keys of one result have the same direction: Fib_Down_<i> when the most
\* recent swing high is strictly later than the most recent swing low, Fib_Up_<i>
\* otherwise.
C18_SameDirection ==
    (FibReturned /\ fib_levels # <<>>) =>
      LET down == Recent(swing_highs, 1).Date > Recent(swing_lows, 1).Date
      IN \A i \in 1..Len(fib_levels) :
            fib_levels[i].key = (IF down THEN "Fib_Down_" ELSE "Fib_Up_") \o ToString(i)

\* C18 witness: the latest high and the latest low have the same date, the second
\* high is later than the second low, and both keys are Fib_Up.
C18_Witness ==
    /\ FibReturned
    /\ Len(fib_levels) = 2
    /\ Recent(swing_highs, 1).Date = Recent(swing_lows, 1).Date
    /\ Recent(swing_highs, 2).Date > Recent(swing_lows, 2).Date
    /\ fib_levels[1].key = "Fib_Up_1"
    /\ fib_levels[2].key = "Fib_Up_2"

\* C19: with no swing high or no swing low calculate_fibonacci_levels returns an
\* empty result and identify_levels appends no Fibonacci level.
C19_EmptySwings ==
    (FibReturned /\ (swing_highs = <<>> \/ swing_lows = <<>>)) =>
      /\ fib_levels = <<>>
      /\ fib_appended = <<>>

\* C19 witness: identify_levels ran its Fibonacci step with swing lows but no swing
\* high and appended nothing.
C19_Witness ==
    /\ pc = "appended"
    /\ swing_highs = <<>>
    /\ Len(swing_lows) = 2
    /\ fib_levels = <<>>
    /\ fib_appended = <<>>

(***************************************************************************)
(* Properties of identify_support_resistance (specification SpecPivot).    *)
(***************************************************************************)
WindowLen == IF window < Len(High) THEN window ELSE Len(High)

\* the Low and the High of the bar at 0-based position i of the last WindowLen bars
RecentLow(i) == Low[Len(Low) - WindowLen + i + 1]
RecentHigh(i) == High[Len(High) - WindowLen + i + 1]

SupportAt ==
    {i \in 0..(WindowLen - 1) :
        /\ 2 <= i /\ i <= WindowLen - 3
        /\ \A d \in {-2, -1, 1, 2} : RecentLow(i) < RecentLow(i + d)}

ResistanceAt ==
    {i \in 0..(WindowLen - 1) :
        /\ 2 <= i /\ i <= WindowLen - 3
        /\ \A d \in {-2, -1, 1, 2} : RecentHigh(i) > RecentHigh(i + d)}

\* the j-th smallest member of a set of positions
Nth(S, j) == CHOOSE i \in S : Cardinality({k \in S : k < i}) = j - 1

\* C20: identify_support_resistance(window=W) looks at the last W bars only; position
\* i of them yields the support (Low, "Recent price action") iff 2 <= i <= len-3 and
\* its Low is strictly below the Lows at i-2, i-1, i+1 and i+2, and a resistance
\* symmetrically on High; the first and last two bars never qualify and fewer than
\* five bars yield none.
C20_Pivots ==
    Done =>
      /\ Len(sr_support) = Cardinality(SupportAt)
      /\ \A j \in 1..Len(sr_support) :
            sr_support[j] = <<RecentLow(Nth(SupportAt, j)), "Recent price action">>
      /\ Len(sr_resistance) = Cardinality(ResistanceAt)
      /\ \A j \in 1..Len(sr_resistance) :
            sr_resistance[j] = <<RecentHigh(Nth(ResistanceAt, j)), "Recent price action">>
      /\ WindowLen < 5 => sr_support = <<>> /\ sr_resistance = <<>>

\* C20 witness: a window of five bars out of at least seven has its only support at
\* its middle bar, and a bar before the window has a lower Low.
C20_Witness ==
    /\ Done
    /\ window = 5
    /\ Len(Low) >= 7
    /\ SupportAt = {2}
    /\ Len(sr_support) = 1
    /\ sr_support[1][1] = RecentLow(2)
    /\ Low[Len(Low) - 6] < RecentLow(2)

(***************************************************************************)
(* Properties of the pipeline (specification SpecPipe).                    *)
(***************************************************************************)
\* identify_levels was called on the analyzers analyze_market built
Called == pc = "done" /\ bars # <<>> /\ results # <<>>
LastResult == results[Len(results)]
Closes == [i \in 1..Len(bars) |-> bars[i].Close]

\* how many times x occurs in a list
Count(x, list) == Cardinality({i \in 1..Len(list) : list[i] = x})

\* C21: after analyze_market (calculate_mas([50, 200]), then identify_levels) the list
\* handed to grouping holds, for each period whose moving average is defined on the
\* last bar, one Level priced at that average and labelled "MA_<period>
\* support/resistance", and it is the concatenation of the generator outputs in
\* non-decreasing price order.
C21_PipelineLevels ==
    (Called /\ LastResult.status = "ok") =>
      /\ \A k \in 1..Len(PipelineWindows) :
            LET average == RollingLast(Closes, PipelineWindows[k])
            IN average # NaN =>
                 Count(<<average, "MA_" \o ToString(PipelineWindows[k])
                                     \o " support/resistance">>, all_levels) = 1
      /\ \A i \in 1..(Len(all_levels) - 1) :
            RatLeq(all_levels[i][1], all_levels[i + 1][1])
      /\ Len(all_levels) = Len(generated)
      /\ \A i \in 1..Len(generated) :
            Count(generated[i], all_levels) = Count(generated[i], generated)

\* C22: a failure inside one generator is absorbed as an empty contribution:
\* identify_levels returns a result that holds the levels of the other generators
\* and raises nothing.
C22_FailureAbsorbed ==
    Called =>
      /\ LastResult.status = "ok"
      /\ LET psych == AsLevels(FindPsychologicalLevels(Closes[Len(Closes)], DefaultPct))
         IN \A i \in 1..Len(psych) : Count(psych[i], all_levels) >= 1

(***************************************************************************)
(* Properties of analyze_vix (specification SpecVix).                      *)
(***************************************************************************)
\* C23: analyze_vix returns no signal when the volatility series is absent, empty or
\* has fewer than 20 closes; otherwise the "below" text when the latest close is
\* strictly less than the mean of the last 20 closes and the "above" text when it is
\* greater or equal.
C23_VixSignal ==
    Done =>
      LET close == vix_data.Close
          n     == Len(close)
      IN IF ~vix_data.given \/ n < 20
         THEN vix_text = NoSignal
         ELSE IF 20 * close[n] < SumSlice(close, n - 19, n)
              THEN vix_text = "VIX below 20-day average - favorable for upside targets."
              ELSE vix_text =
                     "VIX above 20-day average - may need to decrease for upside targets."

(***************************************************************************)
(* Properties of repeated pipeline runs (specification SpecPipe).          *)
(***************************************************************************)
\* C24: runs of identify_levels over the same price series that differ only in the
\* volatility analyzer (absent, or any series) return the same grouped levels,
\* strengths, support list and resistance list; only vix_analysis may differ.
C24_VixIndependent ==
    \A i, j \in 1..Len(results) :
       /\ results[i].status = results[j].status
       /\ results[i].status = "ok" =>
            /\ results[i].all_levels = results[j].all_levels
            /\ results[i].level_strength = results[j].level_strength
            /\ results[i].support_levels = results[j].support_levels
            /\ results[i].resistance_levels = results[j].resistance_levels

\* C24 witness: two runs over the same bars, one without a volatility analyzer and
\* one with the "above" advisory, both reporting support and resistance levels.
C24_Witness ==
    /\ Len(results) = 2
    /\ results[1].status = "ok" /\ results[2].status = "ok"
    /\ results[1].vix_analysis = NoSignal
    /\ results[2].vix_analysis = AboveText
    /\ results[1].support_levels # <<>>
    /\ results[2].resistance_levels # <<>>

\* C25: a further call of identify_levels on the same series and current price, on
\* the same TechnicalLevels object or on a fresh one, returns the same outcome (same
\* current price, same support and resistance lists in the same order, same
\* strengths) and leaves the same level list and groups in the object: nothing of the
\* earlier run is carried over or duplicated.
C25_Rerun ==
    [][(results # <<>> /\ results' # results) =>
         LET old == results[Len(results)]
             new == results'[Len(results')]
         IN /\ new.status = old.status
            /\ old.status = "ok" =>
                 /\ new.current_price = old.current_price
                 /\ new.support_levels = old.support_levels
                 /\ new.resistance_levels = old.resistance_levels
                 /\ new.level_strength = old.level_strength
            /\ all_levels' = all_levels
            /\ grouped_levels' = grouped_levels]_vars

\* C25 witness: identify_levels returned twice over a long series with Fibonacci,
\* volume and pivot levels, both times with the same non-empty lists.
C25_Witness ==
    /\ Len(results) = 2
    /\ Len(bars) = LongBars
    /\ results[1].status = "ok"
    /\ results[1] = results[2]
    /\ results[1].support_levels # <<>>
    /\ results[1].resistance_levels # <<>>
    /\ \E i \in 1..Len(all_levels) : all_levels[i][2] \in FibonacciLabels
    /\ \E i \in 1..Len(all_levels) : all_levels[i][2] = PivotLabel

(***************************************************************************)
(* Further properties of the aggregation (specification Spec).             *)
(***************************************************************************)
\* calculate_strength of one group with the given sources, read at its level
StrengthOf(level, sources) ==
    CalculateStrength(<< <<level, sources>> >>, EmptyDict)[level]

\* C26: for the source list S of every group, calculate_strength of S with one more
\* "Volume cluster" member appended is >= calculate_strength of S; and a group whose
\* sources are another group's sources followed by a "Volume cluster" is at least as
\* strong as that group.
C26_VolumeMonotone ==
    Done =>
      /\ \A g \in 1..Len(grouped_levels) :
            LET level == grouped_levels[g][1]
                S     == grouped_levels[g][2]
            IN StrengthOf(level, Append(S, "Volume cluster")) >= level_strength[level]
      /\ \A g, h \in 1..Len(grouped_levels) :
            grouped_levels[h][2] = Append(grouped_levels[g][2], "Volume cluster") =>
               level_strength[grouped_levels[h][1]] >= level_strength[grouped_levels[g][1]]

\* C26 witness: a group and a second group with the same sources followed by one
\* "Volume cluster", the second one strictly stronger.
C26_Witness ==
    /\ Done
    /\ \E g, h \in 1..Len(grouped_levels) :
          /\ grouped_levels[h][2] = Append(grouped_levels[g][2], "Volume cluster")
          /\ level_strength[grouped_levels[h][1]] > level_strength[grouped_levels[g][1]]

\* C27: when the combined level list is empty, grouping, strength calculation,
\* classification and ranking complete and yield empty grouped levels, an empty
\* strength map, empty support and empty resistance.
C27_EmptyInput ==
    (Done /\ generated = <<>>) =>
      /\ all_levels = <<>>
      /\ grouped_levels = <<>>
      /\ DOMAIN level_strength = {}
      /\ support_levels = <<>>
      /\ resistance_levels = <<>>

\* C27 witness: identify_levels has run over an empty combined list.
C27_Witness == Done /\ generated = <<>> /\ grouped_levels = <<>>

RECURSIVE TotalSources(_)
TotalSources(grouped) ==
    IF grouped = <<>> THEN 0 ELSE Len(grouped[1][2]) + TotalSources(Tail(grouped))

\* C28: grouping conserves levels: for a non-empty sorted list with positive prices
\* the sources of all groups together are as many as the input levels, no group is
\* empty, representative prices are strictly increasing from group to group, each
\* lies between the smallest and the largest member price of its group, and the
\* strength map has exactly one entry per group.
C28_Conservation ==
    (Done /\ all_levels # <<>>) =>
      /\ TotalSources(grouped_levels) = Len(all_levels)
      /\ \A g \in 1..Len(grouped_levels) :
            /\ grouped_levels[g][2] # <<>>
            /\ LET m   == SubSeq(all_levels, GroupStart(g),
                                 GroupStart(g) + Len(grouped_levels[g][2]) - 1)
                   avg == grouped_levels[g][1]
               IN /\ m # <<>>
                  /\ m[1][1] * avg[2] <= avg[1]
                  /\ avg[1] <= m[Len(m)][1] * avg[2]
      /\ \A g \in 1..(Len(grouped_levels) - 1) :
            RatLess(grouped_levels[g][1], grouped_levels[g + 1][1])
      /\ Cardinality(DOMAIN level_strength) = Len(grouped_levels)

\* C28 witness: three levels went to two groups, one of them with two members at
\* different prices.
C28_Witness ==
    /\ Done
    /\ Len(all_levels) = 3
    /\ Len(grouped_levels) = 2
    /\ \E g \in 1..2 :
          /\ Len(grouped_levels[g][2]) = 2
          /\ GroupMembers(g)[1][1] < GroupMembers(g)[2][1]

(***************************************************************************)
(* Properties of MovingAverages (specification SpecMa).                    *)
(***************************************************************************)
NoDuplicates(list) == \A i, j \in 1..Len(list) : list[i] = list[j] => i = j

\* C29: calculate_mas leaves the analyzer's data unchanged and changes ma_columns
\* only; after any sequence of calls ma_columns holds at most one entry per distinct
\* window, and get_ma_levels never returns the same moving-average level twice.
C29_MaFrame ==
    [][/\ ma_data' = ma_data
       /\ NoDuplicates(ma_columns')
       /\ NoDuplicates(ma_levels')]_vars

(***************************************************************************)
(* Properties of SchwabClientSingleton (specification SpecSingleton).      *)
(***************************************************************************)
Credentials(obj) == [f \in Fields |-> obj[f]]

\* C30: over any sequence of constructions, the module-level one included, every
\* construction returns the same instance; its api_key, app_secret, callback_url and
\* token_path stay those the first construction fixed, whatever later constructions
\* pass; constructing never creates the underlying client, a read of .client does
\* when there is none, with the instance's credentials, and at most one is created.
C30_Singleton ==
    [][/\ \A i \in 1..Len(constructed') : constructed'[i].returned = constructed'[1].returned
       /\ allocated' <= 1
       /\ instance # NoInstance =>
             /\ instance'.id = instance.id
             /\ Credentials(instance') = Credentials(instance)
       /\ constructed' # constructed =>
             /\ easy_calls' = easy_calls
             /\ instance = NoInstance => instance'.client = None
             /\ instance # NoInstance => instance'.client = instance.client
       /\ accessed' # accessed =>
             /\ (instance.client = None) <=> (Len(easy_calls') = Len(easy_calls) + 1)
             /\ instance.client # None =>
                   /\ easy_calls' = easy_calls
                   /\ accessed'[Len(accessed')] = instance.client
             /\ \A i \in 1..Len(easy_calls') :
                   \A f \in Fields : easy_calls'[i][f] = instance[f]
       /\ Created(easy_calls') <= 1]_vars

\* C30 witness: after the import a construction with all four arguments returned the
\* same instance, whose credentials are those of the environment, and .client was
\* read twice after the one creation of the client.
C30_Witness ==
    /\ Len(constructed) >= 2
    /\ constructed[2].args = [f \in Fields |-> "given"]
    /\ constructed[2].returned = constructed[1].returned
    /\ instance.api_key = "from env"
    /\ instance.token_path = "token.json"
    /\ Created(easy_calls) = 1
    /\ Len(accessed) = 3
    /\ accessed[2] = accessed[3]
    /\ accessed[3] = instance.client

====
